---- MODULE Spec2Model ----
(***************************************************************************)
(* create-prtw: the scaffolding CLI as a state machine.                    *)
(*                                                                         *)
(* The repository holds two versions of the CLI script: src/index.js and   *)
(* src/unnamed/part_000 (package-manager choice, Vanilla CSS, TanStack     *)
(* Query, code-quality bundle, manifest script merge).  Both are modelled; *)
(* the variable cli says which script is running.  Definitions without a   *)
(* suffix model part_000, definitions ending in _idx model index.js.       *)
(*                                                                         *)
(* A run is the straight-line body of the script's try block: a sequence   *)
(* of calls (ora().start(), spinner.succeed, execa, process.chdir,         *)
(* fs.ensureDir, fs.writeFile, fs.readJson, fs.writeJson).  Program(cli,   *)
(* answers) is that sequence for one set of prompt answers; pc is the      *)
(* position of the next call.  Every call to an external collaborator may  *)
(* throw, which transfers control to the catch block.                      *)
(*                                                                         *)
(* File paths are sequences of path segments.  File contents are sets of   *)
(* the text fragments the template literal is assembled from (import       *)
(* lines, type annotations, class-name families, JSX elements), so that    *)
(* "contains", "differs only by" and "imports" are checkable.              *)
(***************************************************************************)
EXTENDS Integers, Sequences, FiniteSets, TLC

VARIABLES
    cli,          \* which script runs: "index.js" or "part_000"
    answers,      \* the resolved inquirer answers (immutable after Init)
    prog,         \* the calls of the try block under these answers, in order
    pc,           \* index into prog of the next call; Len+1 = end of try
    phase,        \* "try" | "catch" | "exited"
    failedAt,     \* index of the call that threw, 0 if none
    trace,        \* the external calls that completed, in order
    spinners,     \* every ora spinner created, with the marks it received
    cwd,          \* process working directory: "." or the project name
    dirs,         \* directories produced by fs.ensureDir in this run
    files,        \* files written by fs.writeFile: set of [path, content]
    manifest,     \* package.json on disk: [scripts, fields], sets of pairs
    packageJson,  \* the object read by fs.readJson (local variable)
    stderr,       \* TRUE once console.error printed the error message
    success,      \* TRUE once the final success message was printed
    exitCode      \* -1 while running, else the process exit code

vars == <<cli, answers, prog, pc, phase, failedAt, trace, spinners, cwd, dirs, files,
          manifest, packageJson, stderr, success, exitCode>>

----------------------------------------------------------------------------
(* Prompt answers *)

UNDEF == "undefined"

\* process.argv[2] / the prompt's default
projectName == "my-app"

Frameworks == {"React (Vite)", "Next.js"}
Routers == {"App Router (Recommended)", "Pages Router (Legacy)"}
Languages == {"JavaScript", "TypeScript"}
PackageManagers == {"npm", "yarn", "bun"}
Stylings == {"Tailwind", "Shadcn", "Vanilla CSS", "None"}
Stylings_idx == {"Tailwind", "Shadcn", "None"}
TailwindVersions == {"v3 (Stable)", "v4 (Experimental)"}
StateManagements == {"Redux Toolkit", "Zustand", "TanStack Query", "Skip"}
StateManagements_idx == {"Redux", "Zustand", "Skip"}
IconLibraries == {"Lucide", "React Icons", "Iconify", "Skip"}
YesNo == {"Yes", "No"}

\* inquirer asks a question with a `when` only if the condition holds;
\* otherwise the answer is absent (undefined).
WhenRule(a) ==
    /\ (a.framework = "Next.js") = (a.router # UNDEF)
    /\ (a.styling = "Tailwind") = (a.tailwindVersion # UNDEF)

\* answers of part_000's prompts
Answers ==
    { a \in [framework : Frameworks, router : Routers \cup {UNDEF},
             language : Languages, packageManager : PackageManagers,
             styling : Stylings, tailwindVersion : TailwindVersions \cup {UNDEF},
             stateManagement : StateManagements, icons : IconLibraries,
             codeQuality : YesNo, linting : {UNDEF}] : WhenRule(a) }

\* answers of index.js's prompts (no packageManager/codeQuality question;
\* linting instead)
Answers_idx ==
    { a \in [framework : Frameworks, router : Routers \cup {UNDEF},
             language : Languages, packageManager : {UNDEF},
             styling : Stylings_idx, tailwindVersion : TailwindVersions \cup {UNDEF},
             stateManagement : StateManagements_idx, icons : IconLibraries,
             codeQuality : {UNDEF}, linting : YesNo] : WhenRule(a) }

isTypeScript(a) == a.language = "TypeScript"
isNextJs(a) == a.framework = "Next.js"
isAppRouter(a) == a.router = "App Router (Recommended)"
fileExt(a) == IF isTypeScript(a) THEN "tsx" ELSE "jsx"
configExt(a) == IF isTypeScript(a) THEN "ts" ELSE "js"

----------------------------------------------------------------------------
(* Calls *)

NoOp == [kind |-> "", text |-> "", cmd |-> "", args |-> <<>>, path |-> <<>>,
         content |-> {}, entries |-> {}]

ora(text) == [NoOp EXCEPT !.kind = "ora", !.text = text]
succeed(text) == [NoOp EXCEPT !.kind = "succeed", !.text = text]
execa(cmd, args) == [NoOp EXCEPT !.kind = "execa", !.cmd = cmd, !.args = args]
chdir(dir) == [NoOp EXCEPT !.kind = "chdir", !.path = <<dir>>]
ensureDir(path) == [NoOp EXCEPT !.kind = "ensureDir", !.path = path]
writeFile(path, content) ==
    [NoOp EXCEPT !.kind = "writeFile", !.path = path, !.content = content]
readJson(path) == [NoOp EXCEPT !.kind = "readJson", !.path = path]
writeJson(path, entries) ==
    [NoOp EXCEPT !.kind = "writeJson", !.path = path, !.entries = entries]

\* Array.prototype.filter(Boolean) on an array of strings
filterBoolean(arr) == SelectSeq(arr, LAMBDA s : s # "")

\* "name.ext"
Dot(name, ext) == name \o "." \o ext

----------------------------------------------------------------------------
(* part_000: the try block, top to bottom *)

\* the repeated locals `installCmd` / `devInstallCmd`
installCmd(pm) == IF pm = "npm" THEN <<"install">> ELSE <<"add">>
devInstallCmd(pm) ==
    IF pm = "npm" THEN <<"install", "-D">>
    ELSE IF pm = "yarn" THEN <<"add", "-D">> ELSE <<"add", "-d">>

nextArgs(a) ==
    filterBoolean(<<"create-next-app@latest", projectName,
                    "--use-" \o a.packageManager,
                    IF isTypeScript(a) THEN "--typescript" ELSE "--javascript",
                    IF isAppRouter(a) THEN "--app" ELSE "--src-dir",
                    IF a.styling = "Tailwind" THEN "--tailwind" ELSE "",
                    "--eslint", "--import-alias", "@/*">>)

viteTemplate(a) == IF isTypeScript(a) THEN "react-ts" ELSE "react"

CreateProject(a) ==
    IF isNextJs(a)
    THEN <<execa("npx", nextArgs(a))>>
    ELSE <<execa(a.packageManager,
                 IF a.packageManager = "npm"
                 THEN <<"create", "vite@latest", projectName, "--", "--template",
                        viteTemplate(a)>>
                 ELSE <<"create", "vite", projectName, "--template",
                        viteTemplate(a)>>)>>

EnterProject(a) == <<succeed("Base project created!"), chdir(projectName)>>

InstallBase(a) ==
    IF ~isNextJs(a)
    THEN <<ora("Installing dependencies..."),
           execa(a.packageManager,
                 IF a.packageManager = "npm" THEN <<"install">> ELSE <<>>),
           succeed("Dependencies installed!")>>
    ELSE <<>>

\* the CSS written for styling = Tailwind
cssContent ==
    {"@tailwind base;", "@tailwind components;", "@tailwind utilities;",
     ":root { --background ... --radius }", ".dark { --background ... --ring }"}

\* the `{}` placeholders of tailwindConfig, shadcnConfig and vanillaCss
Placeholder == {"{}"}

globalCss(a) ==
    IF isNextJs(a) THEN <<"src", "app", "globals.css">> ELSE <<"src", "index.css">>

\* SetupStyling with the Tailwind stylesheet also written for Vanilla CSS
SetupStyling_vanillaDirectives(a) ==
    LET pm == a.packageManager IN
    IF a.styling = "Tailwind" THEN
        <<ora("Setting up Tailwind CSS...")>>
        \o (IF ~isNextJs(a)
            THEN <<execa(pm, devInstallCmd(pm) \o
                          <<"tailwindcss" \o
                              (IF a.tailwindVersion = "v4 (Experimental)"
                               THEN "@next" ELSE "@latest"),
                            "autoprefixer", "postcss">>),
                   execa("npx", <<"tailwindcss", "init", "-p">>)>>
            ELSE <<>>)
        \o <<writeFile(<<Dot("tailwind.config", configExt(a))>>, Placeholder),
             writeFile(globalCss(a), cssContent),
             succeed("Tailwind CSS configured!")>>
    ELSE IF a.styling = "Shadcn" THEN
        <<ora("Setting up Shadcn/UI...")>>
        \o (IF ~isNextJs(a)
            THEN <<execa(pm, devInstallCmd(pm) \o
                          <<"tailwindcss@latest", "autoprefixer", "postcss">>),
                   execa("npx", <<"tailwindcss", "init", "-p">>)>>
            ELSE <<>>)
        \o <<execa(pm, installCmd(pm) \o
                    <<"class-variance-authority", "clsx", "tailwind-merge",
                      "lucide-react">>),
             execa(pm, devInstallCmd(pm) \o <<"@types/node">>),
             writeFile(<<"components.json">>, Placeholder),
             succeed("Shadcn/UI configured!")>>
    ELSE IF a.styling = "Vanilla CSS" THEN
        <<ora("Setting up Vanilla CSS..."),
          writeFile(globalCss(a), cssContent),
          succeed("Vanilla CSS configured!")>>
    ELSE <<>>

SetupStyling(a) ==
    LET pm == a.packageManager IN
    IF a.styling = "Tailwind" THEN
        <<ora("Setting up Tailwind CSS...")>>
        \o (IF ~isNextJs(a)
            THEN <<execa(pm, devInstallCmd(pm) \o
                          <<"tailwindcss" \o
                              (IF a.tailwindVersion = "v4 (Experimental)"
                               THEN "@next" ELSE "@latest"),
                            "autoprefixer", "postcss">>),
                   execa("npx", <<"tailwindcss", "init", "-p">>)>>
            ELSE <<>>)
        \o <<writeFile(<<Dot("tailwind.config", configExt(a))>>, Placeholder),
             writeFile(globalCss(a), cssContent),
             succeed("Tailwind CSS configured!")>>
    ELSE IF a.styling = "Shadcn" THEN
        <<ora("Setting up Shadcn/UI...")>>
        \o (IF ~isNextJs(a)
            THEN <<execa(pm, devInstallCmd(pm) \o
                          <<"tailwindcss@latest", "autoprefixer", "postcss">>),
                   execa("npx", <<"tailwindcss", "init", "-p">>)>>
            ELSE <<>>)
        \o <<execa(pm, installCmd(pm) \o
                    <<"class-variance-authority", "clsx", "tailwind-merge",
                      "lucide-react">>),
             execa(pm, devInstallCmd(pm) \o <<"@types/node">>),
             writeFile(<<"components.json">>, Placeholder),
             succeed("Shadcn/UI configured!")>>
    ELSE IF a.styling = "Vanilla CSS" THEN
        <<ora("Setting up Vanilla CSS..."),
          writeFile(globalCss(a), Placeholder),
          succeed("Vanilla CSS configured!")>>
    ELSE <<>>

SetupStateManagement(a) ==
    LET pm == a.packageManager IN
    IF a.stateManagement = "Redux Toolkit" THEN
        <<ora("Setting up Redux Toolkit..."),
          execa(pm, installCmd(pm) \o <<"@reduxjs/toolkit", "react-redux">>)>>
        \o (IF isTypeScript(a)
            THEN <<execa(pm, devInstallCmd(pm) \o <<"@types/react-redux">>)>>
            ELSE <<>>)
        \o <<succeed("Redux Toolkit installed!")>>
    ELSE IF a.stateManagement = "Zustand" THEN
        <<ora("Setting up Zustand..."),
          execa(pm, installCmd(pm) \o <<"zustand">>),
          succeed("Zustand installed!")>>
    ELSE IF a.stateManagement = "TanStack Query" THEN
        <<ora("Setting up TanStack Query..."),
          execa(pm, installCmd(pm) \o
                 <<"@tanstack/react-query", "@tanstack/react-query-devtools">>),
          succeed("TanStack Query installed!")>>
    ELSE <<>>

SetupIcons(a) ==
    LET pm == a.packageManager IN
    IF a.icons = "Lucide" THEN
        <<ora("Installing Lucide React..."),
          execa(pm, installCmd(pm) \o <<"lucide-react">>),
          succeed("Lucide React installed!")>>
    ELSE IF a.icons = "React Icons" THEN
        <<ora("Installing React Icons..."),
          execa(pm, installCmd(pm) \o <<"react-icons">>),
          succeed("React Icons installed!")>>
    ELSE IF a.icons = "Iconify" THEN
        <<ora("Installing Iconify..."),
          execa(pm, installCmd(pm) \o <<"@iconify/react">>),
          succeed("Iconify installed!")>>
    ELSE <<>>

SetupReactRouter(a) ==
    IF ~isNextJs(a)
    THEN <<ora("Setting up React Router..."),
           execa(a.packageManager,
                 installCmd(a.packageManager) \o <<"react-router-dom">>),
           succeed("React Router installed!")>>
    ELSE <<>>

SetupAxios(a) ==
    <<ora("Setting up Axios..."),
      execa(a.packageManager, installCmd(a.packageManager) \o <<"axios">>),
      succeed("Axios installed!")>>

\* SetupCodeQuality without the codeQuality === "Yes" guard
SetupCodeQuality_always(a) ==
    LET pm == a.packageManager IN
    IF a.codeQuality \in {"Yes", "No"} THEN
        <<ora("Setting up code quality tools..."),
          IF ~isNextJs(a)
          THEN execa(pm, devInstallCmd(pm) \o
                      <<"eslint", "prettier", "eslint-config-prettier",
                        "eslint-plugin-prettier">>)
          ELSE execa(pm, devInstallCmd(pm) \o
                      <<"prettier", "eslint-config-prettier",
                        "eslint-plugin-prettier">>),
          execa(pm, devInstallCmd(pm) \o
                 <<"husky", "lint-staged", "@commitlint/cli",
                   "@commitlint/config-conventional">>),
          execa("npx", <<"husky", "install">>),
          succeed("Code quality tools configured!")>>
    ELSE <<>>

SetupCodeQuality(a) ==
    LET pm == a.packageManager IN
    IF a.codeQuality = "Yes" THEN
        <<ora("Setting up code quality tools..."),
          IF ~isNextJs(a)
          THEN execa(pm, devInstallCmd(pm) \o
                      <<"eslint", "prettier", "eslint-config-prettier",
                        "eslint-plugin-prettier">>)
          ELSE execa(pm, devInstallCmd(pm) \o
                      <<"prettier", "eslint-config-prettier",
                        "eslint-plugin-prettier">>),
          execa(pm, devInstallCmd(pm) \o
                 <<"husky", "lint-staged", "@commitlint/cli",
                   "@commitlint/config-conventional">>),
          execa("npx", <<"husky", "install">>),
          succeed("Code quality tools configured!")>>
    ELSE <<>>

----------------------------------------------------------------------------
(* part_000: helper functions *)

\* createFolderStructure that always pushes src/store
createFolderStructure_noStoreGuard(a) ==
    LET folders ==
            <<<<"src", "components", "ui">>, <<"src", "components", "layout">>,
              <<"src", "components", "common">>, <<"src", "hooks">>,
              <<"src", "lib">>, <<"src", "utils">>,
              <<"src", "assets", "images">>, <<"src", "assets", "icons">>>>
            \o (IF isNextJs(a)
                THEN (IF isAppRouter(a) THEN <<<<"src", "app">>>>
                      ELSE <<<<"src", "pages">>>>)
                ELSE <<<<"src", "routes">>, <<"src", "pages">>>>)
            \o <<<<"src", "store">>>>
            \o (IF a.codeQuality = "Yes"
                THEN <<<<"src", "tests">>, <<"src", "__tests__">>,
                       <<"src", "components", "__tests__">>>>
                ELSE <<>>)
            \o (IF isTypeScript(a) THEN <<<<"src", "types">>>> ELSE <<>>)
    IN [i \in 1..Len(folders) |-> ensureDir(folders[i])]

\* createFolderStructure that tests isAppRouter before isNextJs
createFolderStructure_routerFirst(a) ==
    LET folders ==
            <<<<"src", "components", "ui">>, <<"src", "components", "layout">>,
              <<"src", "components", "common">>, <<"src", "hooks">>,
              <<"src", "lib">>, <<"src", "utils">>,
              <<"src", "assets", "images">>, <<"src", "assets", "icons">>>>
            \o (IF isAppRouter(a) THEN <<<<"src", "app">>>>
                ELSE IF isNextJs(a) THEN <<<<"src", "pages">>>>
                ELSE <<<<"src", "routes">>, <<"src", "pages">>>>)
            \o (IF a.stateManagement # "Skip" THEN <<<<"src", "store">>>> ELSE <<>>)
            \o (IF a.codeQuality = "Yes"
                THEN <<<<"src", "tests">>, <<"src", "__tests__">>,
                       <<"src", "components", "__tests__">>>>
                ELSE <<>>)
            \o (IF isTypeScript(a) THEN <<<<"src", "types">>>> ELSE <<>>)
    IN [i \in 1..Len(folders) |-> ensureDir(folders[i])]

\* createFolderStructure with the router branches exchanged
createFolderStructure_swapped(a) ==
    LET folders ==
            <<<<"src", "components", "ui">>, <<"src", "components", "layout">>,
              <<"src", "components", "common">>, <<"src", "hooks">>,
              <<"src", "lib">>, <<"src", "utils">>,
              <<"src", "assets", "images">>, <<"src", "assets", "icons">>>>
            \o (IF isNextJs(a)
                THEN (IF isAppRouter(a) THEN <<<<"src", "pages">>>>
                      ELSE <<<<"src", "app">>>>)
                ELSE <<<<"src", "routes">>, <<"src", "pages">>>>)
            \o (IF a.stateManagement # "Skip" THEN <<<<"src", "store">>>> ELSE <<>>)
            \o (IF a.codeQuality = "Yes"
                THEN <<<<"src", "tests">>, <<"src", "__tests__">>,
                       <<"src", "components", "__tests__">>>>
                ELSE <<>>)
            \o (IF isTypeScript(a) THEN <<<<"src", "types">>>> ELSE <<>>)
    IN [i \in 1..Len(folders) |-> ensureDir(folders[i])]

createFolderStructure(a) ==
    LET folders ==
            <<<<"src", "components", "ui">>, <<"src", "components", "layout">>,
              <<"src", "components", "common">>, <<"src", "hooks">>,
              <<"src", "lib">>, <<"src", "utils">>,
              <<"src", "assets", "images">>, <<"src", "assets", "icons">>>>
            \o (IF isNextJs(a)
                THEN (IF isAppRouter(a) THEN <<<<"src", "app">>>>
                      ELSE <<<<"src", "pages">>>>)
                ELSE <<<<"src", "routes">>, <<"src", "pages">>>>)
            \o (IF a.stateManagement # "Skip" THEN <<<<"src", "store">>>> ELSE <<>>)
            \o (IF a.codeQuality = "Yes"
                THEN <<<<"src", "tests">>, <<"src", "__tests__">>,
                       <<"src", "components", "__tests__">>>>
                ELSE <<>>)
            \o (IF isTypeScript(a) THEN <<<<"src", "types">>>> ELSE <<>>)
    IN [i \in 1..Len(folders) |-> ensureDir(folders[i])]

\* a template fragment that is interpolated only in the TypeScript variant
Ts(isTs, fragments) == IF isTs THEN fragments ELSE {}

TailwindClasses == "className=<tailwind utility classes>"

generateButtonComponent(styling, isTs, icons) ==
    LET typeImports == Ts(isTs, {"interface ButtonProps"})
        propTypes == Ts(isTs, {"Button: ButtonProps"})
        iconImport == IF icons = "Lucide"
                      THEN {"import { Loader2 } from 'lucide-react';"} ELSE {}
    IN IF styling = "Tailwind" \/ styling = "Shadcn"
       THEN {"import React from 'react';", "export const Button", TailwindClasses,
             "{disabled && icons === \"Lucide\" ?", "<Loader2 />", "{children}"}
            \cup iconImport \cup typeImports \cup propTypes
       ELSE {"import React from 'react';", "export const Button",
             "className={className}", "{children}"}
            \cup typeImports \cup propTypes

generateLayoutComponent(styling, isTs, icons) ==
    LET iconImports == IF icons = "Lucide"
                       THEN {"import { Menu, X } from 'lucide-react';"} ELSE {}
        typeImports == Ts(isTs, {"interface LayoutProps"})
    IN {"import React, { useState } from 'react';",
        "import { Button } from '../ui/Button';", "export const Layout",
        TailwindClasses}
       \cup iconImports \cup typeImports
       \cup Ts(isTs, {"Layout: React.FC<LayoutProps>"})
       \cup (IF icons = "Lucide" THEN {"<X />", "<Menu />"}
             ELSE {"glyph U+2715", "glyph U+2630"})

generateThemeToggle(isTs, icons) ==
    {"import React, { useState, useEffect } from 'react';",
     "import { Button } from '../ui/Button';", "export const ThemeToggle",
     TailwindClasses}
    \cup Ts(isTs, {"ThemeToggle: React.FC"})

\* generateApiClient that exports apiClient only in the TypeScript variant
generateApiClient_typedClient(isTs) ==
    {"import axios from 'axios';", "const api = axios.create",
     "export default api;"}
    \cup Ts(isTs, {"export const apiClient"})
    \cup Ts(isTs, {", { AxiosResponse, AxiosError }", ": string", ": any"})

generateApiClient(isTs) ==
    {"import axios from 'axios';", "const api = axios.create",
     "export const apiClient", "export default api;"}
    \cup Ts(isTs, {", { AxiosResponse, AxiosError }", ": string", ": any"})

generateZustandStore(isTs) ==
    {"import { create } from 'zustand';", "export const useAuth = create",
     "user: null", "isAuthenticated: false", "login:", "logout:"}

generateReduxSlice(isTs) ==
    {"import { createSlice } from '@reduxjs/toolkit';",
     "const authSlice = createSlice", "export const { login, logout }",
     "export default authSlice.reducer;"}

generateReduxStore(isTs) ==
    {"import { configureStore } from '@reduxjs/toolkit';",
     "import authReducer from './authSlice';", "export const store"}

generateQueryClient(isTs) ==
    {"import { QueryClient } from '@tanstack/react-query';",
     "export const queryClient"}

generateReactRoutes(isTs, ext) ==
    {"import React from 'react';",
     "import { BrowserRouter as Router, Routes, Route } from 'react-router-dom';",
     "import { Layout } from '../components/layout/Layout';",
     "import HomePage from '../pages/HomePage';",
     "import AboutPage from '../pages/AboutPage';",
     "export const AppRoutes", "export default AppRoutes;"}
    \cup Ts(isTs, {"AppRoutes: React.FC"})

generateReactApp(a, isTs, ext) ==
    {"import React from 'react';", "import AppRoutes from './routes/AppRoutes';",
     "import './index.css';", "function App()", "export default App;"}

generateHomePage(a, isTs, ext) ==
    {"import React from 'react';",
     "import { Button } from '../components/ui/Button';", "const HomePage",
     TailwindClasses, "export default HomePage;"}
    \cup Ts(isTs, {"HomePage: React.FC"})

generateAboutPage(a, isTs, ext) ==
    {"import React from 'react';", "const AboutPage", TailwindClasses,
     "export default AboutPage;"}
    \cup Ts(isTs, {"AboutPage: React.FC"})

generateProtectedRoute(a, isTs, ext) ==
    {"import React from 'react';", "import { Navigate } from 'react-router-dom';",
     "export const ProtectedRoute"}
    \cup Ts(isTs, {"ProtectedRoute: React.FC<{ children: React.ReactNode }>"})

generateCustomHooks(isTs) ==
    {"import { useState, useEffect } from 'react';",
     "export const useLocalStorage"}
    \cup Ts(isTs, {": string", ": any"})

generateEslintConfig(isNext) ==
    {IF isNext THEN "extends: next/core-web-vitals, prettier"
     ELSE "extends: eslint:recommended, prettier",
     "plugins: prettier", "rules: prettier/prettier: error"}

generatePrettierConfig ==
    {"semi: true", "singleQuote: true", "printWidth: 80", "tabWidth: 2"}

generateCommitlintConfig ==
    {"module.exports = { extends: ['@commitlint/config-conventional'] };"}

generateLintStagedConfig ==
    {"*.{js,jsx,ts,tsx}: eslint --fix, prettier --write",
     "*.{json,css,md}: prettier --write"}

generateUtils(isTs) ==
    {"export const formatDate", "export const debounce"}
    \cup Ts(isTs, {": Date", ": Function", ": number", ": NodeJS.Timeout",
                   ": any[]"})

generateTypes == {"export interface User", "export interface AuthState"}

huskyPreCommit == {"#!/usr/bin/env sh", "husky.sh", "npx lint-staged"}
huskyCommitMsg ==
    {"#!/usr/bin/env sh", "husky.sh", "npx --no -- commitlint --edit ${1}"}

generateStarterFiles(a) ==
    LET ts == isTypeScript(a)
        ext == fileExt(a)
        ext2 == IF ts THEN "ts" ELSE "js"
    IN <<writeFile(<<"src", "components", "ui", Dot("Button", ext)>>,
                   generateButtonComponent(a.styling, ts, a.icons)),
         writeFile(<<"src", "components", "layout", Dot("Layout", ext)>>,
                   generateLayoutComponent(a.styling, ts, a.icons))>>
       \o (IF a.styling = "Tailwind" \/ a.styling = "Shadcn"
           THEN <<writeFile(<<"src", "components", "common", Dot("ThemeToggle", ext)>>,
                            generateThemeToggle(ts, a.icons))>>
           ELSE <<>>)
       \o <<writeFile(<<"src", "lib", Dot("api", ext2)>>, generateApiClient(ts))>>
       \o (IF a.stateManagement = "Zustand" THEN
               <<writeFile(<<"src", "store", Dot("useAuth", ext2)>>,
                           generateZustandStore(ts))>>
           ELSE IF a.stateManagement = "Redux Toolkit" THEN
               <<writeFile(<<"src", "store", Dot("authSlice", ext2)>>,
                           generateReduxSlice(ts)),
                 writeFile(<<"src", "store", Dot("store", ext2)>>,
                           generateReduxStore(ts))>>
           ELSE IF a.stateManagement = "TanStack Query" THEN
               <<writeFile(<<"src", "lib", Dot("queryClient", ext2)>>,
                           generateQueryClient(ts))>>
           ELSE <<>>)
       \o (IF ~isNextJs(a)
           THEN <<writeFile(<<"src", "routes", Dot("AppRoutes", ext)>>,
                            generateReactRoutes(ts, ext)),
                  writeFile(<<"src", Dot("App", ext)>>,
                            generateReactApp(a, ts, ext)),
                  writeFile(<<"src", "pages", Dot("HomePage", ext)>>,
                            generateHomePage(a, ts, ext)),
                  writeFile(<<"src", "pages", Dot("AboutPage", ext)>>,
                            generateAboutPage(a, ts, ext))>>
           ELSE <<>>)
       \o <<writeFile(<<"src", "components", "common", Dot("ProtectedRoute", ext)>>,
                      generateProtectedRoute(a, ts, ext)),
            writeFile(<<"src", "hooks", Dot("index", ext2)>>,
                      generateCustomHooks(ts))>>
       \o (IF a.codeQuality = "Yes"
           THEN <<writeFile(<<".eslintrc.json">>, generateEslintConfig(isNextJs(a))),
                  writeFile(<<".prettierrc">>, generatePrettierConfig),
                  writeFile(<<"commitlint.config.js">>, generateCommitlintConfig),
                  writeFile(<<".lintstagedrc.json">>, generateLintStagedConfig),
                  ensureDir(<<".husky">>),
                  writeFile(<<".husky", "pre-commit">>, huskyPreCommit),
                  writeFile(<<".husky", "commit-msg">>, huskyCommitMsg)>>
           ELSE <<>>)
       \o <<writeFile(<<"src", "utils", Dot("index", ext2)>>, generateUtils(ts))>>
       \o (IF ts THEN <<writeFile(<<"src", "types", "index.ts">>, generateTypes)>>
           ELSE <<>>)

\* additionalScripts without the codeQuality guard
additionalScripts_lintAlways(a) ==
    {<<"dev", IF isNextJs(a) THEN "next dev" ELSE "vite">>,
     <<"build", IF isNextJs(a) THEN "next build" ELSE "vite build">>,
     <<"start", IF isNextJs(a) THEN "next start" ELSE "vite preview">>}
    \cup (IF a.codeQuality \in {"Yes", "No"}
          THEN {<<"lint", "eslint . --ext .js,.jsx,.ts,.tsx">>,
                <<"lint:fix", "eslint . --ext .js,.jsx,.ts,.tsx --fix">>,
                <<"format", "prettier --write .">>,
                <<"format:check", "prettier --check .">>}
          ELSE {})

additionalScripts(a) ==
    {<<"dev", IF isNextJs(a) THEN "next dev" ELSE "vite">>,
     <<"build", IF isNextJs(a) THEN "next build" ELSE "vite build">>,
     <<"start", IF isNextJs(a) THEN "next start" ELSE "vite preview">>}
    \cup (IF a.codeQuality = "Yes"
          THEN {<<"lint", "eslint . --ext .js,.jsx,.ts,.tsx">>,
                <<"lint:fix", "eslint . --ext .js,.jsx,.ts,.tsx --fix">>,
                <<"format", "prettier --write .">>,
                <<"format:check", "prettier --check .">>}
          ELSE {})

updatePackageJsonScripts(a) ==
    <<readJson(<<"package.json">>),
      writeJson(<<"package.json">>, additionalScripts(a))>>

\* packageJson.scripts = additionalScripts (the existing scripts dropped)
MergeScripts_replace(old, add) == add

\* the spread { ...packageJson.scripts, ...additionalScripts }
MergeScripts(old, add) ==
    {e \in old : ~\E n \in add : n[1] = e[1]} \cup add

----------------------------------------------------------------------------
(* index.js: the try block and its helper functions *)

nextArgs_idx(a) ==
    <<"create-next-app@latest", projectName, "--use-npm",
      IF isTypeScript(a) THEN "--typescript" ELSE "--javascript",
      IF isAppRouter(a) THEN "--app" ELSE "--src-dir",
      "--tailwind", "--eslint", "--import-alias", "@/*">>
    \o (IF ~isAppRouter(a) THEN <<"--src-dir">> ELSE <<>>)

CreateProject_idx(a) ==
    IF isNextJs(a)
    THEN <<execa("npx", nextArgs_idx(a))>>
    ELSE <<execa("npm", <<"create", "vite@latest", projectName, "--",
                          "--template", viteTemplate(a)>>)>>

InstallBase_idx(a) ==
    <<ora("Installing dependencies..."), execa("npm", <<"install">>),
      succeed("Dependencies installed!")>>

generateNextTailwindConfig ==
    {"module.exports =", "content: ./src/pages, ./src/components, ./src/app",
     "theme: { extend: {} }", "plugins: []"}

generateViteTailwindConfig ==
    {"export default", "content: ./index.html, ./src/**/*",
     "theme: { extend: {} }", "plugins: []"}

generateShadcnConfig ==
    {"$schema: https://ui.shadcn.com/schema.json", "style: default",
     "tailwind: { config: tailwind.config.js, css: src/app/globals.css }",
     "aliases: { components: @/components, utils: @/lib/utils }"}

cssContent_idx ==
    {"@tailwind base;", "@tailwind components;", "@tailwind utilities;"}

SetupStyling_idx(a) ==
    IF a.styling = "Tailwind" THEN
        <<ora("Setting up Tailwind CSS...")>>
        \o (IF ~isNextJs(a)
            THEN <<execa("npm", <<"install", "-D",
                                  "tailwindcss" \o
                                      (IF a.tailwindVersion = "v4 (Experimental)"
                                       THEN "@next" ELSE "@latest"),
                                  "autoprefixer", "postcss">>),
                   execa("npx", <<"tailwindcss", "init", "-p">>)>>
            ELSE <<>>)
        \o <<writeFile(<<Dot("tailwind.config", configExt(a))>>,
                       IF isNextJs(a) THEN generateNextTailwindConfig
                       ELSE generateViteTailwindConfig),
             writeFile(globalCss(a), cssContent_idx),
             succeed("Tailwind CSS configured!")>>
    ELSE IF a.styling = "Shadcn" THEN
        <<ora("Setting up Shadcn/UI...")>>
        \o (IF ~isNextJs(a)
            THEN <<execa("npm", <<"install", "-D", "tailwindcss@latest",
                                  "autoprefixer", "postcss">>),
                   execa("npx", <<"tailwindcss", "init", "-p">>)>>
            ELSE <<>>)
        \o <<execa("npm", <<"install", "class-variance-authority", "clsx",
                            "tailwind-merge">>),
             execa("npm", <<"install", "-D", "@types/node">>),
             writeFile(<<"components.json">>, generateShadcnConfig),
             succeed("Shadcn/UI configured!")>>
    ELSE <<>>

SetupStateManagement_idx(a) ==
    IF a.stateManagement = "Redux" THEN
        <<ora("Setting up Redux Toolkit..."),
          execa("npm", <<"install", "@reduxjs/toolkit", "react-redux">>),
          succeed("Redux Toolkit installed!")>>
    ELSE IF a.stateManagement = "Zustand" THEN
        <<ora("Setting up Zustand..."), execa("npm", <<"install", "zustand">>),
          succeed("Zustand installed!")>>
    ELSE <<>>

SetupIcons_idx(a) ==
    IF a.icons = "Lucide" THEN
        <<ora("Installing Lucide React..."),
          execa("npm", <<"install", "lucide-react">>),
          succeed("Lucide React installed!")>>
    ELSE IF a.icons = "React Icons" THEN
        <<ora("Installing React Icons..."),
          execa("npm", <<"install", "react-icons">>),
          succeed("React Icons installed!")>>
    ELSE IF a.icons = "Iconify" THEN
        <<ora("Installing Iconify..."),
          execa("npm", <<"install", "@iconify/react">>),
          succeed("Iconify installed!")>>
    ELSE <<>>

SetupReactRouter_idx(a) ==
    IF ~isNextJs(a)
    THEN <<ora("Setting up React Router..."),
           execa("npm", <<"install", "react-router-dom">>),
           succeed("React Router installed!")>>
    ELSE <<>>

SetupLinting_idx(a) ==
    IF a.linting = "Yes" THEN
        <<ora("Setting up ESLint & Prettier..."),
          IF ~isNextJs(a)
          THEN execa("npm", <<"install", "-D", "eslint", "prettier",
                              "eslint-config-prettier", "eslint-plugin-prettier">>)
          ELSE execa("npm", <<"install", "-D", "prettier",
                              "eslint-config-prettier", "eslint-plugin-prettier">>),
          succeed("ESLint & Prettier configured!")>>
    ELSE <<>>

createFolderStructure_idx(a) ==
    LET folders ==
            <<<<"src", "components", "ui">>, <<"src", "components", "common">>,
              <<"src", "hooks">>, <<"src", "layouts">>, <<"src", "utils">>>>
            \o (IF isNextJs(a)
                THEN (IF isAppRouter(a) THEN <<<<"src", "app">>>>
                      ELSE <<<<"src", "pages">>>>)
                ELSE <<<<"src", "routes">>>>)
            \o (IF a.stateManagement # "Skip" THEN <<<<"src", "store">>>> ELSE <<>>)
    IN [i \in 1..Len(folders) |-> ensureDir(folders[i])]

generateButtonComponent_idx(styling, isTs) ==
    LET typeImports == Ts(isTs, {"interface ButtonProps"})
        propTypes == Ts(isTs, {"Button: ButtonProps"})
    IN IF styling = "Tailwind" \/ styling = "Shadcn"
       THEN {"import React from 'react';", "export const Button", TailwindClasses,
             "{children}"} \cup typeImports \cup propTypes
       ELSE {"import React from 'react';", "export const Button",
             "style={{ ...styles[variant], ...sizeStyles[size] }}", "{children}"}
            \cup typeImports \cup propTypes

generateZustandStore_idx(isTs) ==
    {"import { create } from 'zustand';", "export const useAuth = create",
     "user: null", "isAuthenticated: false", "isLoading: false", "login:",
     "logout:", "setUser:"}
    \cup Ts(isTs, {"interface User", "interface AuthState", "create<AuthState>",
                   "email: string, password: string", "user: User"})

generateReduxSlice_idx(isTs) ==
    {"import { createSlice, createAsyncThunk } from '@reduxjs/toolkit';",
     "const initialState", "export const loginUser = createAsyncThunk",
     "const authSlice = createSlice",
     "export const { logout, setUser, clearError }",
     "export default authSlice.reducer;"}
    \cup Ts(isTs, {", PayloadAction", "interface User", "interface AuthState",
                   "initialState: AuthState",
                   "{ email: string; password: string }",
                   "action: PayloadAction<User>"})

generateReduxStore_idx(isTs) ==
    {"import { configureStore } from '@reduxjs/toolkit';",
     "import authReducer from './authSlice';", "export const store"}
    \cup Ts(isTs, {"export type RootState", "export type AppDispatch"})

generateReactRoutes_idx(isTs, ext) ==
    {"import React from 'react';",
     "import { BrowserRouter as Router, Routes, Route } from 'react-router-dom';",
     "import HomePage from '../pages/HomePage';",
     "import AboutPage from '../pages/AboutPage';",
     "export const AppRoutes", "export default AppRoutes;"}
    \cup Ts(isTs, {"AppRoutes: React.FC"})

generateReactApp_idx(a, isTs, ext) ==
    {"import React from 'react';", "import AppRoutes from './routes/AppRoutes';",
     "function App()", "export default App;"}
    \cup (IF a.styling = "Tailwind" \/ a.styling = "Shadcn"
          THEN {"import './index.css';"} ELSE {})
    \cup (IF a.stateManagement = "Redux"
          THEN {"import { Provider } from 'react-redux';",
                "import { store } from './store/store';",
                "<Provider store={store}>"}
          ELSE {})

generateEslintConfig_idx(isNext) ==
    IF isNext
    THEN {"extends: next/core-web-vitals, prettier", "plugins: prettier",
          "rules: prettier/prettier: error"}
    ELSE {"env: { browser: true, es2021: true }",
          "extends: eslint:recommended, @vitejs/eslint-config-react, prettier",
          "plugins: prettier", "rules: prettier/prettier: error"}

generatePrettierConfig_idx ==
    {"semi: true", "trailingComma: es5", "singleQuote: true", "printWidth: 80",
     "tabWidth: 2"}

generateUtils_idx(isTs) ==
    {"export const cn", "export const formatDate", "export const debounce"}
    \cup Ts(isTs, {"(string | undefined)[]): string", "date: Date): string",
                   "<T extends (...args: any[]) => void>", "func: T",
                   "wait: number", "Parameters<T>", ": NodeJS.Timeout"})

generateStarterFiles_idx(a) ==
    LET ts == isTypeScript(a)
        ext == fileExt(a)
        ext2 == IF ts THEN "ts" ELSE "js"
    IN <<writeFile(<<"src", "components", "ui", Dot("Button", ext)>>,
                   generateButtonComponent_idx(a.styling, ts))>>
       \o (IF a.stateManagement = "Zustand" THEN
               <<writeFile(<<"src", "store", Dot("useAuth", ext2)>>,
                           generateZustandStore_idx(ts))>>
           ELSE IF a.stateManagement = "Redux" THEN
               <<writeFile(<<"src", "store", Dot("authSlice", ext2)>>,
                           generateReduxSlice_idx(ts)),
                 writeFile(<<"src", "store", Dot("store", ext2)>>,
                           generateReduxStore_idx(ts))>>
           ELSE <<>>)
       \o (IF ~isNextJs(a)
           THEN <<writeFile(<<"src", "routes", Dot("AppRoutes", ext)>>,
                            generateReactRoutes_idx(ts, ext)),
                  writeFile(<<"src", Dot("App", ext)>>,
                            generateReactApp_idx(a, ts, ext))>>
           ELSE <<>>)
       \o (IF a.linting = "Yes"
           THEN <<writeFile(<<".eslintrc.json">>,
                            generateEslintConfig_idx(isNextJs(a))),
                  writeFile(<<".prettierrc">>, generatePrettierConfig_idx)>>
           ELSE <<>>)
       \o <<writeFile(<<"src", "utils", Dot("index", ext2)>>,
                      generateUtils_idx(ts))>>

----------------------------------------------------------------------------
(* The two scripts *)

\* Main with the icons phase moved before the state-management phase
Main_iconsFirst(a) ==
    CreateProject(a) \o EnterProject(a) \o InstallBase(a)
    \o SetupStyling(a) \o SetupIcons(a) \o SetupStateManagement(a)
    \o SetupReactRouter(a) \o SetupAxios(a) \o SetupCodeQuality(a)
    \o <<ora("Creating folder structure...")>> \o createFolderStructure(a)
    \o <<succeed("Folder structure created!")>>
    \o <<ora("Generating starter files...")>> \o generateStarterFiles(a)
    \o <<succeed("Starter files generated!")>>
    \o updatePackageJsonScripts(a)

\* Main with the manifest merge moved before the starter files
Main_mergeFirst(a) ==
    CreateProject(a) \o EnterProject(a) \o InstallBase(a)
    \o SetupStyling(a) \o SetupStateManagement(a) \o SetupIcons(a)
    \o SetupReactRouter(a) \o SetupAxios(a) \o SetupCodeQuality(a)
    \o <<ora("Creating folder structure...")>> \o createFolderStructure(a)
    \o <<succeed("Folder structure created!")>>
    \o updatePackageJsonScripts(a)
    \o <<ora("Generating starter files...")>> \o generateStarterFiles(a)
    \o <<succeed("Starter files generated!")>>

Main(a) ==
    CreateProject(a) \o EnterProject(a) \o InstallBase(a)
    \o SetupStyling(a) \o SetupStateManagement(a) \o SetupIcons(a)
    \o SetupReactRouter(a) \o SetupAxios(a) \o SetupCodeQuality(a)
    \o <<ora("Creating folder structure...")>> \o createFolderStructure(a)
    \o <<succeed("Folder structure created!")>>
    \o <<ora("Generating starter files...")>> \o generateStarterFiles(a)
    \o <<succeed("Starter files generated!")>>
    \o updatePackageJsonScripts(a)

Main_idx(a) ==
    CreateProject_idx(a) \o EnterProject(a) \o InstallBase_idx(a)
    \o SetupStyling_idx(a) \o SetupStateManagement_idx(a) \o SetupIcons_idx(a)
    \o SetupReactRouter_idx(a) \o SetupLinting_idx(a)
    \o <<ora("Creating folder structure...")>> \o createFolderStructure_idx(a)
    \o <<succeed("Folder structure created!")>>
    \o <<ora("Generating starter files...")>> \o generateStarterFiles_idx(a)
    \o <<succeed("Starter files generated!")>>

Program(c, a) == IF c = "part_000" THEN Main(a) ELSE Main_idx(a)

\* calls to external collaborators: each can throw
Fallible == {"execa", "chdir", "ensureDir", "writeFile", "readJson", "writeJson"}

\* the scaffolder call among the execa calls
IsScaffold(op) ==
    /\ op.kind = "execa"
    /\ \E i \in 1..Len(op.args) : op.args[i] \in {"create-next-app@latest", "create"}

\* package.json before the scaffolder has run
NoManifest == [scripts |-> {}, fields |-> {}]

\* scripts of the package.json the scaffolder's template ships
ScaffoldScripts(a) ==
    IF isNextJs(a)
    THEN {{<<"dev", "next dev">>, <<"build", "next build">>,
           <<"start", "next start">>, <<"lint", "next lint">>}}
    ELSE {{<<"dev", "vite">>,
           <<"build", IF isTypeScript(a) THEN "tsc -b && vite build"
                      ELSE "vite build">>,
           <<"lint", "eslint .">>, <<"preview", "vite preview">>}}

\* the other top-level fields of that package.json
ScaffoldFields(a) ==
    {<<"name", projectName>>, <<"private", "true">>,
     <<"dependencies", "react">>, <<"dependencies", "react-dom">>}
    \cup (IF isNextJs(a) THEN {<<"dependencies", "next">>}
          ELSE {<<"type", "module">>, <<"devDependencies", "vite">>})

\* what a package-manager install/add command records in package.json
InstallFlags == {"install", "add", "-D", "-d"}
DependenciesOf(op) ==
    IF op.cmd \in PackageManagers /\ ~IsScaffold(op)
    THEN {<<IF \E k \in 1..Len(op.args) : op.args[k] \in {"-D", "-d"}
            THEN "devDependencies" ELSE "dependencies", op.args[i]>> :
            i \in {k \in 1..Len(op.args) : op.args[k] \notin InstallFlags}}
    ELSE {}

\* fs.ensureDir creates the directory and every missing ancestor
Ancestors(path) == {SubSeq(path, 1, n) : n \in 1..Len(path)}

----------------------------------------------------------------------------
(* State machine *)

Init ==
    /\ cli \in {"index.js", "part_000"}
    /\ answers \in (IF cli = "part_000" THEN Answers ELSE Answers_idx)
    /\ prog = Program(cli, answers)
    /\ pc = 1
    /\ phase = "try"
    /\ failedAt = 0
    /\ trace = <<>>
    /\ spinners = <<[label |-> "Creating base project...",
                     marks |-> <<"start">>]>>
    /\ cwd = "."
    /\ dirs = {}
    /\ files = {}
    /\ manifest = NoManifest
    /\ packageJson = NoManifest
    /\ stderr = FALSE
    /\ success = FALSE
    /\ exitCode = -1

InTry == phase = "try" /\ pc <= Len(prog)
Cur == prog[pc]
At(kind) == InTry /\ Cur.kind = kind

\* spinner = ora(text).start()
OraStart ==
    /\ At("ora")
    /\ spinners' = Append(spinners, [label |-> Cur.text, marks |-> <<"start">>])
    /\ pc' = pc + 1
    /\ UNCHANGED <<cli, answers, prog, phase, failedAt, trace, cwd, dirs, files,
                   manifest, packageJson, stderr, success, exitCode>>

\* spinner.succeed(text): marks the current spinner
SpinnerSucceed ==
    /\ At("succeed")
    /\ spinners' = [spinners EXCEPT ![Len(spinners)].marks = Append(@, "succeed")]
    /\ pc' = pc + 1
    /\ UNCHANGED <<cli, answers, prog, phase, failedAt, trace, cwd, dirs, files,
                   manifest, packageJson, stderr, success, exitCode>>

\* await execa(cmd, args) resolves
Execa ==
    /\ At("execa")
    /\ trace' = Append(trace, Cur)
    /\ IF IsScaffold(Cur)
       THEN \E m \in ScaffoldScripts(answers) :
                manifest' = [scripts |-> m, fields |-> ScaffoldFields(answers)]
       ELSE manifest' = [manifest EXCEPT !.fields = @ \cup DependenciesOf(Cur)]
    /\ pc' = pc + 1
    /\ UNCHANGED <<cli, answers, prog, phase, failedAt, spinners, cwd, dirs, files,
                   packageJson, stderr, success, exitCode>>

\* process.chdir that leaves the working directory where it was
Chdir_stay ==
    /\ At("chdir")
    /\ cwd' = cwd
    /\ trace' = Append(trace, Cur)
    /\ pc' = pc + 1
    /\ UNCHANGED <<cli, answers, prog, phase, failedAt, spinners, dirs, files,
                   manifest, packageJson, stderr, success, exitCode>>

\* process.chdir(projectName) returns
Chdir ==
    /\ At("chdir")
    /\ cwd' = Cur.path[1]
    /\ trace' = Append(trace, Cur)
    /\ pc' = pc + 1
    /\ UNCHANGED <<cli, answers, prog, phase, failedAt, spinners, dirs, files,
                   manifest, packageJson, stderr, success, exitCode>>

\* await fs.ensureDir(folder) resolves
EnsureDir ==
    /\ At("ensureDir")
    /\ dirs' = dirs \cup Ancestors(Cur.path)
    /\ trace' = Append(trace, Cur)
    /\ pc' = pc + 1
    /\ UNCHANGED <<cli, answers, prog, phase, failedAt, spinners, cwd, files,
                   manifest, packageJson, stderr, success, exitCode>>

\* await fs.writeFile(path, content) resolves
WriteFile ==
    /\ At("writeFile")
    /\ files' = {f \in files : f.path # Cur.path}
                \cup {[path |-> Cur.path, content |-> Cur.content]}
    /\ trace' = Append(trace, Cur)
    /\ pc' = pc + 1
    /\ UNCHANGED <<cli, answers, prog, phase, failedAt, spinners, cwd, dirs,
                   manifest, packageJson, stderr, success, exitCode>>

\* const packageJson = await fs.readJson(packageJsonPath)
ReadJson ==
    /\ At("readJson")
    /\ packageJson' = manifest
    /\ trace' = Append(trace, Cur)
    /\ pc' = pc + 1
    /\ UNCHANGED <<cli, answers, prog, phase, failedAt, spinners, cwd, dirs, files,
                   manifest, stderr, success, exitCode>>

\* packageJson.scripts = {...}; await fs.writeJson(packageJsonPath, packageJson)
WriteJson ==
    /\ At("writeJson")
    /\ packageJson' = [packageJson EXCEPT
                           !.scripts = MergeScripts(@, Cur.entries)]
    /\ manifest' = packageJson'
    /\ trace' = Append(trace, Cur)
    /\ pc' = pc + 1
    /\ UNCHANGED <<cli, answers, prog, phase, failedAt, spinners, cwd, dirs, files,
                   stderr, success, exitCode>>

\* Throw with the rejection swallowed: the script goes on with the next call
Throw_swallowed ==
    /\ InTry
    /\ Cur.kind \in Fallible
    /\ failedAt' = pc
    /\ pc' = pc + 1
    /\ UNCHANGED <<cli, answers, prog, phase, trace, spinners, cwd, dirs, files,
                   manifest, packageJson, stderr, success, exitCode>>

\* the awaited call rejects (or process.chdir throws): control goes to catch
Throw ==
    /\ InTry
    /\ Cur.kind \in Fallible
    /\ failedAt' = pc
    /\ phase' = "catch"
    /\ UNCHANGED <<cli, answers, prog, pc, trace, spinners, cwd, dirs, files,
                   manifest, packageJson, stderr, success, exitCode>>

\* Catch that reports the error but leaves the exit code at 0
Catch_exit0 ==
    /\ phase = "catch"
    /\ spinners' = [spinners EXCEPT ![Len(spinners)].marks = Append(@, "fail")]
    /\ stderr' = TRUE
    /\ exitCode' = 0
    /\ phase' = "exited"
    /\ UNCHANGED <<cli, answers, prog, pc, failedAt, trace, cwd, dirs, files,
                   manifest, packageJson, success>>

\* catch (error) { spinner.fail(...); console.error(...); process.exit(1) }
Catch ==
    /\ phase = "catch"
    /\ spinners' = [spinners EXCEPT ![Len(spinners)].marks = Append(@, "fail")]
    /\ stderr' = TRUE
    /\ exitCode' = 1
    /\ phase' = "exited"
    /\ UNCHANGED <<cli, answers, prog, pc, failedAt, trace, cwd, dirs, files,
                   manifest, packageJson, success>>

\* end of the try block: success message, the script ends
Finish ==
    /\ phase = "try"
    /\ pc = Len(prog) + 1
    /\ success' = TRUE
    /\ exitCode' = 0
    /\ phase' = "exited"
    /\ UNCHANGED <<cli, answers, prog, pc, failedAt, trace, spinners, cwd, dirs,
                   files, manifest, packageJson, stderr>>

Next ==
    \/ OraStart
    \/ SpinnerSucceed
    \/ Execa
    \/ Chdir
    \/ EnsureDir
    \/ WriteFile
    \/ ReadJson
    \/ WriteJson
    \/ Throw
    \/ Catch
    \/ Finish

Spec == Init /\ [][Next]_vars

TypeOK ==
    /\ cli \in {"index.js", "part_000"}
    /\ pc \in 1..(Len(prog) + 1)
    /\ phase \in {"try", "catch", "exited"}
    /\ failedAt \in 0..Len(prog)
    /\ exitCode \in {-1, 0, 1}

----------------------------------------------------------------------------
(* Vocabulary of the properties *)

\* the calls with an external effect, as they appear in a call sequence
EffectsOf(calls) == SelectSeq(calls, LAMBDA op : op.kind \in Fallible)

\* install, directory and file steps (everything but chdir and the manifest)
StepsOf(calls) ==
    SelectSeq(calls, LAMBDA op : op.kind \in {"execa", "ensureDir", "writeFile"})

Range(seq) == {seq[i] : i \in 1..Len(seq)}

Dirname(path) == SubSeq(path, 1, Len(path) - 1)

\* a package-manager command that names one of pkgs
InstallsAny(op, pkgs) ==
    /\ op.kind = "execa"
    /\ op.cmd \in PackageManagers
    /\ Range(op.args) \cap pkgs # {}

\* a dev-dependency install of all of pkgs
DevInstallsAll(op, pkgs) ==
    /\ op.kind = "execa"
    /\ op.cmd \in PackageManagers
    /\ Len(op.args) >= 2
    /\ op.args[1] \in {"install", "add"}
    /\ op.args[2] \in {"-D", "-d"}
    /\ pkgs \subseteq Range(op.args)

TailwindPkgs == {"tailwindcss", "tailwindcss@latest", "tailwindcss@next"}
TailwindDirectives ==
    {"@tailwind base;", "@tailwind components;", "@tailwind utilities;"}

QualityPkgs ==
    {"eslint", "prettier", "eslint-config-prettier", "eslint-plugin-prettier",
     "husky", "lint-staged", "@commitlint/cli", "@commitlint/config-conventional"}
QualityFiles ==
    {<<".eslintrc.json">>, <<".prettierrc">>, <<"commitlint.config.js">>,
     <<".lintstagedrc.json">>, <<".husky", "pre-commit">>,
     <<".husky", "commit-msg">>}

Written(path) == \E f \in files : f.path = path
SpinnerDone(label) ==
    \E i \in 1..Len(spinners) :
        spinners[i].label = label /\ "succeed" \in Range(spinners[i].marks)

----------------------------------------------------------------------------
(* C1..C10 *)

\* C1: fail-fast.  Once a call has thrown at position k, exactly the calls
\* before k have been performed, each once and in order, the script is at
\* the catch block or has exited, no later call is performed, and on exit
\* the failure has been reported (spinner failed, message printed, exit 1).
C1_FailFast ==
    failedAt # 0 =>
        /\ trace = EffectsOf(SubSeq(prog, 1, failedAt - 1))
        /\ pc = failedAt
        /\ phase \in {"catch", "exited"}
        /\ ~success
        /\ phase = "exited" =>
               /\ stderr
               /\ exitCode = 1
               /\ "fail" \in Range(spinners[Len(spinners)].marks)

C1_Witness ==
    /\ phase = "exited"
    /\ failedAt > 3
    /\ failedAt < Len(prog)
    /\ prog[failedAt].kind = "writeFile"
    /\ Len(trace) >= 3

\* C2: directory coverage.  Every completed file write whose path has a
\* directory part was preceded in the same run by an ensureDir call that
\* produced that directory.
C2_DirectoryCoverage ==
    \A i \in 1..Len(trace) :
        (trace[i].kind = "writeFile" /\ Len(trace[i].path) > 1) =>
            \E j \in 1..(i - 1) :
                /\ trace[j].kind = "ensureDir"
                /\ Dirname(trace[i].path) \in Ancestors(trace[j].path)

\* C3: the package.json scripts merge is the last side-effecting step: when
\* it has been performed it is the last completed call, and every install,
\* directory creation and file write of the script has been performed
\* before it.
C3_ManifestMergeLast ==
    \A i \in 1..Len(trace) :
        trace[i].kind = "writeJson" =>
            /\ i = Len(trace)
            /\ StepsOf(SubSeq(trace, 1, i - 1)) = StepsOf(prog)

C3_Witness ==
    /\ exitCode = 0
    /\ \E i \in 1..Len(trace) : trace[i].kind = "writeJson"
    /\ \E i \in 1..Len(trace) : trace[i].kind = "ensureDir"
    /\ \E i \in 1..Len(trace) : trace[i].kind = "writeFile"

C5_ExitCodes ==
    /\ (exitCode = 0) =
           (phase = "exited" /\ failedAt = 0 /\ trace = EffectsOf(prog))
    /\ (phase = "exited" /\ failedAt # 0) => (stderr /\ exitCode = 1)
    /\ (phase # "exited") => exitCode = -1

C5_Witness ==
    /\ exitCode = 1
    /\ stderr
    /\ prog[failedAt].kind = "execa"
    /\ prog[failedAt].args \in {<<"install">>, <<>>}

\* C6: every spinner goes start -> succeed or start -> fail: none is marked
\* failed after it was marked succeeded, none gets two terminal marks.
C6_SpinnerLifecycle ==
    \A i \in 1..Len(spinners) :
        spinners[i].marks \in
            {<<"start">>, <<"start", "succeed">>, <<"start", "fail">>}

\* the position of the last spinner call before position k (0: the spinner
\* started before the try block)
LastSpinnerCall(k) ==
    LET S == {i \in 1..(k - 1) : prog[i].kind \in {"ora", "succeed"}}
    IN IF S = {} THEN 0 ELSE CHOOSE i \in S : \A j \in S : j <= i

\* C7: when a call fails, the spinner marked failed is the one in progress
\* at that moment: it was started for the failing step and has not been
\* marked succeeded.
C7_FailedStepIsMarked ==
    (phase = "exited" /\ failedAt # 0) =>
        /\ spinners[Len(spinners)].marks = <<"start", "fail">>
        /\ LastSpinnerCall(failedAt) # 0 =>
               /\ prog[LastSpinnerCall(failedAt)].kind = "ora"
               /\ prog[LastSpinnerCall(failedAt)].text
                      = spinners[Len(spinners)].label

\* the answers of the C8 scenario (the code-quality question is `linting`
\* in index.js)
C8_Scenario ==
    /\ answers.framework = "React (Vite)"
    /\ answers.language = "TypeScript"
    /\ answers.styling = "Tailwind"
    /\ answers.tailwindVersion = "v3 (Stable)"
    /\ answers.stateManagement = "Zustand"
    /\ answers.icons = "Lucide"
    /\ (answers.codeQuality = "No" \/ answers.linting = "No")

\* C8: in the scenario a fully successful run has written
\* src/store/useAuth.ts, has installed tailwindcss, autoprefixer and postcss
\* as dev dependencies, and no run installs an ESLint/Prettier/Husky
\* package, runs husky, or writes one of their config or hook files.
C8_ScenarioPlan ==
    C8_Scenario =>
        /\ exitCode = 0 =>
               /\ Written(<<"src", "store", "useAuth.ts">>)
               /\ \E i \in 1..Len(trace) :
                      DevInstallsAll(trace[i],
                          {"tailwindcss@latest", "autoprefixer", "postcss"})
        /\ \A i \in 1..Len(trace) :
               /\ ~InstallsAny(trace[i], QualityPkgs)
               /\ ~(trace[i].kind = "execa" /\ "husky" \in Range(trace[i].args))
               /\ ~(trace[i].kind = "ensureDir" /\ trace[i].path = <<".husky">>)
        /\ \A f \in files : f.path \notin QualityFiles

C8_Witness == C8_Scenario /\ exitCode = 0 /\ cli = "part_000"

\* C9: the content written to src/store/useAuth.ts imports create from
\* zustand and declares the User and AuthState shapes.
C9_TypedZustandStore ==
    \A f \in files :
        f.path = <<"src", "store", "useAuth.ts">> =>
            /\ "import { create } from 'zustand';" \in f.content
            /\ \E u \in f.content : u \in {"interface User", "export interface User"}
            /\ \E s \in f.content :
                   s \in {"interface AuthState", "export interface AuthState"}

\* C10: with Next.js and the Pages Router the run never creates src/app and,
\* once the folder structure is done, has created src/pages; with the App
\* Router it is the reverse.
C10_RouterDirectory ==
    LET made(p) == \E i \in 1..Len(trace) :
                       trace[i].kind = "ensureDir" /\ trace[i].path = p
        done == SpinnerDone("Creating folder structure...")
    IN isNextJs(answers) =>
           IF isAppRouter(answers)
           THEN /\ ~made(<<"src", "pages">>)
                /\ done => made(<<"src", "app">>)
           ELSE /\ ~made(<<"src", "app">>)
                /\ done => made(<<"src", "pages">>)

C10_Witness ==
    /\ isNextJs(answers)
    /\ answers.router = "Pages Router (Legacy)"
    /\ SpinnerDone("Creating folder structure...")
    /\ \E i \in 1..Len(trace) :
           trace[i].kind = "ensureDir" /\ trace[i].path = <<"src", "pages">>

----------------------------------------------------------------------------
(* C11..C20 *)

\* the answers objects that agree with a except on the gated fields whose
\* governor does not select them (router when framework is not Next.js,
\* tailwindVersion when styling is not Tailwind)
GatedVariants(a) ==
    {[a EXCEPT !.router = r, !.tailwindVersion = t] :
        r \in (IF isNextJs(a) THEN {a.router} ELSE Routers \cup {UNDEF}),
        t \in (IF a.styling = "Tailwind" THEN {a.tailwindVersion}
               ELSE TailwindVersions \cup {UNDEF})}

C12_GatedFieldsIgnored ==
    phase = "exited" =>
        \A b \in GatedVariants(answers) :
            /\ EffectsOf(Program(cli, b)) = EffectsOf(prog)
            /\ failedAt = 0 => trace = EffectsOf(Program(cli, b))

C12_Witness ==
    /\ exitCode = 0
    /\ cli = "part_000"
    /\ ~isNextJs(answers)
    /\ answers.styling = "Shadcn"
    /\ \E b \in GatedVariants(answers) :
           b.router = "App Router (Recommended)"
           /\ b.tailwindVersion = "v4 (Experimental)"

\* C13: the manifest merge changes only the scripts map: script keys that are
\* not among the compiler's entries keep their value, the compiler's keys
\* take the compiler's value, every other field of package.json is as it
\* was on disk.
C13_MergeFrame ==
    [][(At("writeJson") /\ pc' = pc + 1) =>
           LET add == additionalScripts(answers)
               keys == {e[1] : e \in add}
           IN /\ manifest'.fields = manifest.fields
              /\ {e \in manifest'.scripts : e[1] \notin keys}
                     = {e \in manifest.scripts : e[1] \notin keys}
              /\ {e \in manifest'.scripts : e[1] \in keys} = add]_vars

C13_Witness ==
    /\ exitCode = 0
    /\ cli = "part_000"
    /\ isTypeScript(answers)
    /\ <<"preview", "vite preview">> \in manifest.scripts
    /\ <<"build", "vite build">> \in manifest.scripts
    /\ <<"build", "tsc -b && vite build">> \notin manifest.scripts
    /\ <<"dependencies", "axios">> \in manifest.fields

Created == {trace[i].path : i \in {k \in 1..Len(trace) : trace[k].kind = "ensureDir"}}

RoutingDirs(c, a) ==
    IF a.framework = "Next.js"
    THEN (IF a.router = "App Router (Recommended)" THEN {<<"src", "app">>}
          ELSE {<<"src", "pages">>})
    ELSE (IF c = "part_000" THEN {<<"src", "routes">>, <<"src", "pages">>}
          ELSE {<<"src", "routes">>})

StoreDirs(a) == IF a.stateManagement # "Skip" THEN {<<"src", "store">>} ELSE {}
TypesDirs(a) == IF a.language = "TypeScript" THEN {<<"src", "types">>} ELSE {}
TestDirs(a) ==
    IF a.codeQuality = "Yes"
    THEN {<<"src", "tests">>, <<"src", "__tests__">>,
          <<"src", "components", "__tests__">>}
    ELSE {}

StylingPkgs ==
    TailwindPkgs \cup {"autoprefixer", "postcss", "class-variance-authority",
                       "clsx", "tailwind-merge", "@types/node"}
StatePkgs ==
    {"@reduxjs/toolkit", "react-redux", "@types/react-redux", "zustand",
     "@tanstack/react-query", "@tanstack/react-query-devtools"}
IconPkgs == {"lucide-react", "react-icons", "@iconify/react"}

\* styling 1, state management 2, icons 3, routing 4, API client 5; 0 for
\* any other call.  The Shadcn batch names lucide-react next to its own
\* packages and belongs to the styling group.
Group(op) ==
    IF InstallsAny(op, StylingPkgs) THEN 1
    ELSE IF InstallsAny(op, StatePkgs) THEN 2
    ELSE IF InstallsAny(op, IconPkgs) THEN 3
    ELSE IF InstallsAny(op, {"react-router-dom"}) THEN 4
    ELSE IF InstallsAny(op, {"axios"}) THEN 5
    ELSE 0

\* C16: installs are issued in the order styling, state management, icons,
\* routing, API client: no install of a later group has completed before the
\* install completed last, and an install is started only when every install
\* the script prescribes for an earlier group has completed.
C16_InstallOrder ==
    /\ (trace # <<>> /\ Group(trace[Len(trace)]) > 0) =>
           \A i \in 1..Len(trace) :
               Group(trace[i]) <= Group(trace[Len(trace)])
    /\ (At("execa") /\ Group(Cur) > 0) =>
           \A k \in 1..Len(prog) :
               (Group(prog[k]) > 0 /\ Group(prog[k]) < Group(Cur))
                   => prog[k] \in Range(trace)

C16_Witness ==
    /\ At("execa")
    /\ Group(Cur) = 5
    /\ \A g \in 1..4 : \E i \in 1..Len(trace) : Group(trace[i]) = g

\* the fragments that are type annotations, interfaces, type arguments,
\* type exports or type-only imports
TypeFragments ==
    {"interface ButtonProps", "Button: ButtonProps", "interface LayoutProps",
     "Layout: React.FC<LayoutProps>", "ThemeToggle: React.FC",
     ", { AxiosResponse, AxiosError }", ": string", ": any", "AppRoutes: React.FC",
     "HomePage: React.FC", "AboutPage: React.FC",
     "ProtectedRoute: React.FC<{ children: React.ReactNode }>",
     ": Date", ": Function", ": number", ": NodeJS.Timeout", ": any[]",
     "export interface User", "export interface AuthState",
     "interface User", "interface AuthState", "create<AuthState>",
     "email: string, password: string", "user: User", ", PayloadAction",
     "initialState: AuthState", "{ email: string; password: string }",
     "action: PayloadAction<User>", "export type RootState",
     "export type AppDispatch", "(string | undefined)[]): string",
     "date: Date): string", "<T extends (...args: any[]) => void>", "func: T",
     "wait: number", "Parameters<T>"}

WritesOf(calls) == SelectSeq(calls, LAMBDA op : op.kind = "writeFile")

\* C17: the files written by a TypeScript run and the files the script
\* writes for the same answers with language = JavaScript correspond one to
\* one, in the same directories, and each TypeScript content is the
\* JavaScript content plus type fragments only; a file written for
\* TypeScript alone holds type fragments only.
C17_Orthogonality ==
    (exitCode = 0 /\ isTypeScript(answers)) =>
        LET wt == WritesOf(trace)
            wj == WritesOf(Program(cli, [answers EXCEPT !.language = "JavaScript"]))
        IN /\ Len(wj) <= Len(wt)
           /\ \A i \in 1..Len(wj) :
                  /\ Dirname(wt[i].path) = Dirname(wj[i].path)
                  /\ wj[i].content \cap TypeFragments = {}
                  /\ wt[i].content \ TypeFragments = wj[i].content
           /\ \A i \in (Len(wj) + 1)..Len(wt) :
                  wt[i].content \subseteq TypeFragments

C17_Witness ==
    /\ exitCode = 0
    /\ isTypeScript(answers)
    /\ cli = "part_000"
    /\ \E f \in files :
           /\ f.path = <<"src", "lib", "api.ts">>
           /\ ": any" \in f.content
           /\ "export const apiClient" \in f.content
    /\ \E f \in files : f.path = <<"src", "types", "index.ts">>

IconImports ==
    {"import { Loader2 } from 'lucide-react';",
     "import { Menu, X } from 'lucide-react';"}
IconElements == {"<Loader2 />", "<Menu />", "<X />"}
Glyphs == {"glyph U+2630", "glyph U+2715"}

IsLayout(f) ==
    f.path \in {<<"src", "components", "layout", "Layout.tsx">>,
                <<"src", "components", "layout", "Layout.jsx">>}

\* C18: with icons = Skip no written component imports from an icon
\* library or renders an icon-library element, and the Layout's mobile-menu
\* toggle renders the text glyphs.
C18_IconFallback ==
    answers.icons = "Skip" =>
        \A f \in files :
            /\ f.content \cap IconImports = {}
            /\ f.content \cap IconElements = {}
            /\ IsLayout(f) => Glyphs \subseteq f.content

ThemeToggleWritten ==
    \E f \in files :
        f.path \in {<<"src", "components", "common", "ThemeToggle.tsx">>,
                    <<"src", "components", "common", "ThemeToggle.jsx">>}

IsProtectedRoute(path) ==
    path \in {<<"src", "components", "common", "ProtectedRoute.tsx">>,
              <<"src", "components", "common", "ProtectedRoute.jsx">>}

\* the answers the prompts allow that differ from a in framework and
\* styling (and the fields these two govern) only
StylingFrameworkVariants(c, a) ==
    {b \in (IF c = "part_000" THEN Answers ELSE Answers_idx) :
        /\ b.language = a.language
        /\ b.packageManager = a.packageManager
        /\ b.stateManagement = a.stateManagement
        /\ b.icons = a.icons
        /\ b.codeQuality = a.codeQuality
        /\ b.linting = a.linting}

\* C19: after a successful run ThemeToggle is written exactly
\* when styling is Tailwind or Shadcn, and for some framework/styling
\* combination the script writes no ProtectedRoute.
C19_RequiredFilesOriginal ==
    exitCode = 0 =>
        /\ ThemeToggleWritten <=> answers.styling \in {"Tailwind", "Shadcn"}
        /\ \E b \in StylingFrameworkVariants(cli, answers) :
               \A i \in 1..Len(Program(cli, b)) :
                   ~IsProtectedRoute(Program(cli, b)[i].path)

\* C20: no written file is empty or holds the placeholder literal {}.
C20_NoPlaceholder ==
    \A f \in files : f.content # {} /\ "{}" \notin f.content

----------------------------------------------------------------------------
(* C21..C30 *)

ChdirSteps == {i \in 1..Len(trace) : trace[i].kind = "chdir"}

\* C21: the working directory changes at most once, to the project root,
\* after the scaffolder call and nothing else has completed; every install,
\* directory creation, file write and manifest access comes after the
\* change, and a successful run has made it.
C21_WorkingDirectory ==
    /\ Cardinality(ChdirSteps) <= 1
    /\ cwd = IF ChdirSteps = {} THEN "." ELSE projectName
    /\ \A i \in ChdirSteps :
           /\ trace[i].path = <<projectName>>
           /\ i > 1
           /\ \A j \in 1..(i - 1) : IsScaffold(trace[j])
    /\ \A i \in 1..Len(trace) :
           (trace[i].kind # "chdir" /\ ~IsScaffold(trace[i]))
               => \E j \in ChdirSteps : j < i
    /\ exitCode = 0 => ChdirSteps # {}

C21_Witness ==
    /\ exitCode = 0
    /\ cwd = projectName
    /\ \E i \in 1..Len(trace) : trace[i].kind = "writeFile"
    /\ \E i \in 1..Len(trace) : trace[i].kind = "writeJson"

\* the package manager the run is to use (the older script asks no question)
Selected == IF cli = "part_000" THEN answers.packageManager ELSE "npm"

\* an install step: an external command that is neither the scaffolder nor
\* an npx tool run
IsInstall(op) == op.kind = "execa" /\ op.cmd # "npx" /\ ~IsScaffold(op)

DevPkgs ==
    TailwindPkgs \cup QualityPkgs
    \cup {"autoprefixer", "postcss", "@types/node", "@types/react-redux"}

PkgsOf(op) == {op.args[i] : i \in {k \in 1..Len(op.args) : op.args[k] \notin InstallFlags}}

\* C22: every install step runs the selected package manager with install
\* (npm) or add (yarn, bun) as its subcommand, and carries the dev flag
\* (-D for npm and yarn, -d for bun) exactly when it names dev packages.
C22_InstallCommand ==
    \A i \in 1..Len(trace) :
        IsInstall(trace[i]) =>
            LET op == trace[i]
                dev == PkgsOf(op) # {} /\ PkgsOf(op) \subseteq DevPkgs
            IN /\ op.cmd = Selected
               /\ Len(op.args) >= 1
               /\ op.args[1] = (IF Selected = "npm" THEN "install" ELSE "add")
               /\ dev <=> (Len(op.args) >= 2
                           /\ op.args[2] = (IF Selected = "bun" THEN "-d" ELSE "-D"))
               /\ \A k \in 3..Len(op.args) : op.args[k] \notin InstallFlags

\* C23: Tailwind utility class names appear in written content only when
\* styling is Tailwind or Shadcn.
C23_StylingVariant ==
    \A f \in files :
        TailwindClasses \in f.content => answers.styling \in {"Tailwind", "Shadcn"}

\* the package an import fragment names ("" when it names none)
PackageOf(fragment) ==
    CASE fragment \in {"import { Loader2 } from 'lucide-react';",
                       "import { Menu, X } from 'lucide-react';"} -> "lucide-react"
      [] fragment \in {"import { BrowserRouter as Router, Routes, Route } from 'react-router-dom';",
                       "import { Navigate } from 'react-router-dom';"} -> "react-router-dom"
      [] fragment = "import axios from 'axios';" -> "axios"
      [] fragment = "import { create } from 'zustand';" -> "zustand"
      [] fragment \in {"import { configureStore } from '@reduxjs/toolkit';",
                       "import { createSlice } from '@reduxjs/toolkit';",
                       "import { createSlice, createAsyncThunk } from '@reduxjs/toolkit';"}
            -> "@reduxjs/toolkit"
      [] fragment = "import { Provider } from 'react-redux';" -> "react-redux"
      [] fragment = "import { QueryClient } from '@tanstack/react-query';"
            -> "@tanstack/react-query"
      [] OTHER -> ""

\* the package installed for an icons answer
IconPackage(icons) ==
    CASE icons = "Lucide" -> "lucide-react"
      [] icons = "React Icons" -> "react-icons"
      [] icons = "Iconify" -> "@iconify/react"
      [] OTHER -> ""

\* C24: the written Layout imports its menu/close icons from the package of
\* the chosen icon library and shows no text glyph, for Lucide, React Icons
\* and Iconify alike; with no library chosen it shows the text glyphs and
\* imports no icon package.
C24_IconLibrarySwap ==
    \A f \in files :
        IsLayout(f) =>
            IF answers.icons = "Skip"
            THEN /\ Glyphs \subseteq f.content
                 /\ \A e \in f.content : PackageOf(e) \notin IconPkgs
            ELSE /\ \E e \in f.content : PackageOf(e) = IconPackage(answers.icons)
                 /\ Glyphs \cap f.content = {}

\* C25: when a file is written, every third-party package one of its import
\* fragments names has been installed by an earlier completed step.
C25_ImportsInstalled ==
    \A i \in 1..Len(trace) :
        trace[i].kind = "writeFile" =>
            \A e \in trace[i].content :
                PackageOf(e) # "" =>
                    \E j \in 1..(i - 1) : InstallsAny(trace[j], {PackageOf(e)})

\* the module a relative import fragment names, as path segments (<<>> when
\* the fragment is no relative module import)
RelativeTarget(fragment) ==
    CASE fragment = "import AboutPage from '../pages/AboutPage';"
            -> <<"..", "pages", "AboutPage">>
      [] fragment = "import HomePage from '../pages/HomePage';"
            -> <<"..", "pages", "HomePage">>
      [] fragment = "import AppRoutes from './routes/AppRoutes';"
            -> <<".", "routes", "AppRoutes">>
      [] fragment = "import authReducer from './authSlice';" -> <<".", "authSlice">>
      [] fragment = "import { Button } from '../components/ui/Button';"
            -> <<"..", "components", "ui", "Button">>
      [] fragment = "import { Button } from '../ui/Button';" -> <<"..", "ui", "Button">>
      [] fragment = "import { Layout } from '../components/layout/Layout';"
            -> <<"..", "components", "layout", "Layout">>
      [] fragment = "import { store } from './store/store';" -> <<".", "store", "store">>
      [] OTHER -> <<>>

\* the path a relative target names when imported from a file in directory dir
ResolveFrom(dir, target) ==
    IF target[1] = ".." THEN Dirname(dir) \o SubSeq(target, 2, Len(target))
    ELSE dir \o SubSeq(target, 2, Len(target))

ModuleExts == {"tsx", "jsx", "ts", "js"}

\* C26: after a successful run every relative module import of a written
\* file names a module that the run has written.
C26_RelativeImportsResolve ==
    exitCode = 0 =>
        \A f \in files :
            \A e \in f.content :
                RelativeTarget(e) # <<>> =>
                    LET t == ResolveFrom(Dirname(f.path), RelativeTarget(e))
                    IN \E g \in files :
                           /\ Dirname(g.path) = Dirname(t)
                           /\ \E x \in ModuleExts :
                                  g.path[Len(g.path)] = Dot(t[Len(t)], x)

\* the identifiers a fragment refers to, and the identifiers a fragment binds
Uses(fragment) ==
    CASE fragment = "<Loader2 />" -> {"Loader2"}
      [] fragment = "<Menu />" -> {"Menu"}
      [] fragment = "<X />" -> {"X"}
      [] fragment = "{disabled && icons === \"Lucide\" ?" -> {"disabled", "icons"}
      [] fragment = "{children}" -> {"children"}
      [] OTHER -> {}

Binds(fragment) ==
    CASE fragment = "import { Loader2 } from 'lucide-react';" -> {"Loader2"}
      [] fragment = "import { Menu, X } from 'lucide-react';" -> {"Menu", "X"}
      [] fragment = "export const Button" -> {"children", "disabled"}
      [] fragment = "export const Layout" -> {"children"}
      [] OTHER -> {}

\* C27: every identifier a written file refers to (an icon component, a
\* name in the Button body) is bound in that file.
C27_IdentifiersBound ==
    \A f \in files :
        \A e \in f.content :
            Uses(e) \subseteq UNION {Binds(g) : g \in f.content}

ShadcnPkgs == {"class-variance-authority", "clsx", "tailwind-merge"}

\* a completed call that provisions Tailwind CSS: a tailwindcss install or
\* the scaffolder run with --tailwind
ProvisionsTailwind(op) ==
    \/ InstallsAny(op, TailwindPkgs)
    \/ IsScaffold(op) /\ "--tailwind" \in Range(op.args)

\* C28: with styling = Shadcn the Shadcn dependencies are installed only
\* after a call that provisions Tailwind CSS has completed.
C28_TailwindBeforeShadcn ==
    answers.styling = "Shadcn" =>
        \A i \in 1..Len(trace) :
            InstallsAny(trace[i], ShadcnPkgs) =>
                \E j \in 1..(i - 1) : ProvisionsTailwind(trace[j])

QualityScriptKeys == {"lint", "lint:fix", "format", "format:check"}

\* an external command that installs or enables a code-quality tool
EnablesQuality(op) ==
    /\ op.kind = "execa"
    /\ \/ Range(op.args) \cap (QualityPkgs \cup {"--eslint"}) # {}
       \/ op.cmd = "npx" /\ Len(op.args) >= 1 /\ op.args[1] \in QualityPkgs

\* C29: with codeQuality = No no completed command installs or enables a
\* code-quality tool, no config or hook file of one is written, no test
\* directory or .husky is created and no lint or format script is merged.
C29_NoCodeQuality ==
    answers.codeQuality = "No" =>
        \A i \in 1..Len(trace) :
            /\ ~EnablesQuality(trace[i])
            /\ trace[i].kind = "writeFile" => trace[i].path \notin QualityFiles
            /\ trace[i].kind = "ensureDir" =>
                   trace[i].path \notin TestDirs([codeQuality |-> "Yes"]) \cup {<<".husky">>}
            /\ trace[i].kind = "writeJson" =>
                   \A e \in trace[i].entries : e[1] \notin QualityScriptKeys

\* C30: for Next.js the scaffolder is invoked with --src-dir exactly once.
C30_SrcDirOnce ==
    \A i \in 1..Len(trace) :
        (IsScaffold(trace[i]) /\ isNextJs(answers)) =>
            Cardinality({k \in 1..Len(trace[i].args) : trace[i].args[k] = "--src-dir"}) = 1

====
